---------------------------- MODULE Spec2Model ----------------------------
(* SUTPlan frontend: the week/date mapping, the persisted week cursor,    *)
(* the day grouping, the week label and the week-keyed schedule query.    *)
(*                                                                         *)
(* Strings are sequences of one-character strings, so that parseInt,      *)
(* String(), split() and sort() are computed character by character.      *)
(* Date.getTime() is counted in minutes instead of milliseconds: every    *)
(* quantity the code divides by is a whole number of minutes, and         *)
(* floor(floor(t / 60000) / 10080) = floor(t / 604800000).                 *)
EXTENDS Integers, Sequences, FiniteSets, TLC

VARIABLES
    app,            \* "unmounted" | "mounted" | "crashed": the App component
    week,           \* useState<number>: the week cursor (0 while not mounted)
    localStorage,   \* the item under WEEK_KEY: null, or <<string>>
    now,            \* new Date() at the time getInitialWeek runs
    err,            \* the exception the last handler let escape, or "none"
    lastReq,        \* the argument of the last changeWeek call: <<>> or <<n>>
    cache,          \* the QueryCache: queryKey -> query state
    late,           \* weeks whose response arrived while another week was shown
    call,           \* the last application of a pure function of lib/weeks
    prev            \* the dateToWeek application before the last one

vars == <<app, week, localStorage, now, err, lastReq, cache, late, call, prev>>
navVars == <<app, week, localStorage, now, err, lastReq>>
fetchVars == <<cache, late>>
pureVars == <<call, prev>>

------------------------------------------------------------------------
(* Bounds of the model *)

MaxStoredLen == 3       \* longest string initially found in storage
FarWeeks == 3000        \* how many weeks away from the anchor "far" dates lie
WeekSlack == 2          \* week arguments range over (1 - WeekSlack)..(54 + WeekSlack)
MaxEvents == 3          \* longest event list handed to groupByDay / weekLabelFromEvents
MaxQueries == 2         \* most distinct weeks queried in one run of the fetch layer

------------------------------------------------------------------------
(* Characters and numbers <-> strings *)

Max(a, b) == IF a >= b THEN a ELSE b
Min(a, b) == IF a <= b THEN a ELSE b

DigitChars == <<"0", "1", "2", "3", "4", "5", "6", "7", "8", "9">>
IsDigit(c) == \E i \in 1..10 : DigitChars[i] = c
DigitVal(c) == (CHOOSE i \in 1..10 : DigitChars[i] = c) - 1
WhiteSpace == {" "}

\* UTF-16 code unit order restricted to the characters of date keys.
CharCode(c) == IF c = "-" THEN 45
               ELSE IF IsDigit(c) THEN 48 + DigitVal(c)
               ELSE IF c = "T" THEN 84
               ELSE 58

RECURSIVE NatDigits(_)
NatDigits(n) == IF n < 10 THEN <<DigitChars[n + 1]>>
                ELSE Append(NatDigits(n \div 10), DigitChars[(n % 10) + 1])

\* String(n) / template-literal interpolation of an integer.
String(n) == IF n < 0 THEN <<"-">> \o NatDigits(-n) ELSE NatDigits(n)

RECURSIVE TrimLeft(_)
TrimLeft(s) == IF s # <<>> /\ Head(s) \in WhiteSpace THEN TrimLeft(Tail(s)) ELSE s

RECURSIVE DigitPrefix(_)
DigitPrefix(s) == IF s # <<>> /\ IsDigit(Head(s))
                  THEN <<Head(s)>> \o DigitPrefix(Tail(s))
                  ELSE <<>>

RECURSIVE DigitsValue(_)
DigitsValue(ds) == IF ds = <<>> THEN 0
                   ELSE DigitsValue(SubSeq(ds, 1, Len(ds) - 1)) * 10 + DigitVal(ds[Len(ds)])

NaN == <<>>
isNaN(n) == n = NaN

\* parseInt(str, 10): skips leading white space, takes an optional sign and
\* the longest run of digits, ignores whatever follows; NaN without a digit.
\* A number n is returned as <<n>>.
parseInt(str) ==
    LET t == TrimLeft(str)
        signed == t # <<>> /\ Head(t) \in {"+", "-"}
        neg == t # <<>> /\ Head(t) = "-"
        ds == DigitPrefix(IF signed THEN Tail(t) ELSE t)
    IN  IF ds = <<>> THEN NaN
        ELSE <<IF neg THEN -DigitsValue(ds) ELSE DigitsValue(ds)>>

\* Number(str) on a string of digits (the parts of a date key).
Number(str) == DigitsValue(str)

------------------------------------------------------------------------
(* lib/weeks: the calendar mapper *)

MIN_WEEK == 19
MAX_WEEK == 54
ANCHOR_WEEK == 19
FIRST_SEMESTER_WEEK == 19
MS_PER_DAY == 24 * 60
MS_PER_WEEK == 7 * MS_PER_DAY

\* new Date('2026-03-02T00:00:00').getTime(): local midnight, 20514 days
\* after the epoch, here in Europe/Warsaw (UTC+1).
ANCHOR_MONDAY == 20514 * MS_PER_DAY - 60

\* weekToMonday counting from the day before the anchor Monday.
weekToMonday_dayEarly(w) == ANCHOR_MONDAY + (w - ANCHOR_WEEK) * MS_PER_WEEK - MS_PER_DAY

weekToMonday(w) == ANCHOR_MONDAY + (w - ANCHOR_WEEK) * MS_PER_WEEK

weekToSunday(w) == weekToMonday(w) + 6 * MS_PER_DAY

\* dateToWeek without Math.max(1, ...).
dateToWeek_noLowerClamp(date) ==
    LET diffMs == date - ANCHOR_MONDAY
        diffWeeks == diffMs \div MS_PER_WEEK
    IN  Min(54, ANCHOR_WEEK + diffWeeks)

dateToWeek(date) ==
    LET diffMs == date - ANCHOR_MONDAY
        diffWeeks == diffMs \div MS_PER_WEEK
        wk == ANCHOR_WEEK + diffWeeks
    IN  Max(1, Min(54, wk))

currentWeek(date) == Max(dateToWeek(date), FIRST_SEMESTER_WEEK)

------------------------------------------------------------------------
(* Strings of dates: split, compare, sort *)

RECURSIVE Split(_, _)
\* str.split(sep) for a one-character separator.
Split(str, sep) ==
    IF \A i \in 1..Len(str) : str[i] # sep
    THEN <<str>>
    ELSE LET k == CHOOSE i \in 1..Len(str) :
                     str[i] = sep /\ \A j \in 1..(i - 1) : str[j] # sep
         IN  <<SubSeq(str, 1, k - 1)>> \o Split(SubSeq(str, k + 1, Len(str)), sep)

RECURSIVE CodeUnitLess(_, _)
\* a < b on strings: by UTF-16 code units, a proper prefix first.
CodeUnitLess(a, b) ==
    IF b = <<>> THEN FALSE
    ELSE IF a = <<>> THEN TRUE
    ELSE IF CharCode(Head(a)) # CharCode(Head(b))
         THEN CharCode(Head(a)) < CharCode(Head(b))
         ELSE CodeUnitLess(Tail(a), Tail(b))

\* a.localeCompare(b) < 0; on strings of digits and hyphens the collation
\* order is the code unit order.
localeCompareLess(a, b) == CodeUnitLess(a, b)

RECURSIVE InsertByKey(_, _)
\* x is placed after every element whose key is not greater (stable).
InsertByKey(sorted, x) ==
    IF sorted = <<>> THEN <<x>>
    ELSE IF localeCompareLess(x[1], Head(sorted)[1])
         THEN <<x>> \o sorted
         ELSE <<Head(sorted)>> \o InsertByKey(Tail(sorted), x)

RECURSIVE SortEntries(_)
\* entries.sort(([a], [b]) => a.localeCompare(b)): a stable sort by key.
SortEntries(entries) ==
    IF entries = <<>> THEN <<>>
    ELSE InsertByKey(SortEntries(SubSeq(entries, 1, Len(entries) - 1)),
                     entries[Len(entries)])

RECURSIVE InsertString(_, _)
InsertString(sorted, x) ==
    IF sorted = <<>> THEN <<x>>
    ELSE IF CodeUnitLess(x, Head(sorted))
         THEN <<x>> \o sorted
         ELSE <<Head(sorted)>> \o InsertString(Tail(sorted), x)

RECURSIVE SortStrings(_)
\* strings.sort(): the default order, by code units.
SortStrings(strs) ==
    IF strs = <<>> THEN <<>>
    ELSE InsertString(SortStrings(SubSeq(strs, 1, Len(strs) - 1)), strs[Len(strs)])

RECURSIVE Unique(_)
\* Array.from(new Set(xs)): first occurrences, in order.
Unique(xs) ==
    IF xs = <<>> THEN <<>>
    ELSE LET init == Unique(SubSeq(xs, 1, Len(xs) - 1))
             x == xs[Len(xs)]
         IN  IF \E i \in 1..Len(init) : init[i] = x THEN init ELSE Append(init, x)

\* toDateKey(isoString) = isoString.split('T')[0]
toDateKey(isoString) == Split(isoString, "T")[1]

------------------------------------------------------------------------
(* Local calendar dates: new Date(y, m, d), getDate(), getMonth() *)

\* Days from 1970-01-01 to the civil date y-m-d (proleptic Gregorian).
DaysFromCivil(y, m, d) ==
    LET yy == IF m <= 2 THEN y - 1 ELSE y
        era == yy \div 400
        yoe == yy - era * 400
        mp == IF m > 2 THEN m - 3 ELSE m + 9
        doy == (153 * mp + 2) \div 5 + d - 1
        doe == yoe * 365 + yoe \div 4 - yoe \div 100 + doy
    IN  era * 146097 + doe - 719468

\* The civil date <<y, m, d>> of a day number.
CivilFromDays(z) ==
    LET zz == z + 719468
        era == zz \div 146097
        doe == zz - era * 146097
        yoe == (doe - doe \div 1460 + doe \div 36524 - doe \div 146096) \div 365
        doy == doe - (365 * yoe + yoe \div 4 - yoe \div 100)
        mp == (5 * doy + 2) \div 153
        d == doy - (153 * mp + 2) \div 5 + 1
        m == IF mp < 10 THEN mp + 3 ELSE mp - 9
        y == yoe + era * 400 + (IF m <= 2 THEN 1 ELSE 0)
    IN  <<y, m, d>>

\* new Date(year, monthIndex, day): local midnight of that day, a day past
\* the end of the month rolling over; kept as the local day number.
NewLocalDate(year, monthIndex, day) == DaysFromCivil(year, monthIndex + 1, 1) + day - 1

\* Europe/Warsaw: UTC+1, and UTC+2 during summer time. Valid from
\* 2025-03-30 to 2027-03-28, which covers every week the model converts.
DstEnd2025 == 20387 * MS_PER_DAY + 60
DstStart2026 == 20541 * MS_PER_DAY + 60
DstEnd2026 == 20751 * MS_PER_DAY + 60
UtcOffset(t) == IF t < DstEnd2025 \/ (t >= DstStart2026 /\ t < DstEnd2026) THEN 120 ELSE 60

\* The local day number of new Date(t).
LocalDayOf(t) == (t + UtcOffset(t)) \div MS_PER_DAY

getDate(localDay) == CivilFromDays(localDay)[3]
getMonth(localDay) == CivilFromDays(localDay)[2] - 1

------------------------------------------------------------------------
(* lib/weeks: the label formatter *)

PL_MONTHS == << <<"s", "t", "y">>, <<"l", "u", "t">>, <<"m", "a", "r">>,
                <<"k", "w", "i">>, <<"m", "a", "j">>, <<"c", "z", "e">>,
                <<"l", "i", "p">>, <<"s", "i", "e">>, <<"w", "r", "z">>,
                <<"p", "a", "z_acute">>, <<"l", "i", "s">>, <<"g", "r", "u">> >>

\* " - " with an en dash, the separator of both label forms.
Dash == <<" ", "EN_DASH", " ">>

fmt(localDay) == String(getDate(localDay)) \o <<" ">> \o PL_MONTHS[getMonth(localDay) + 1]

weekLabel(w) ==
    LET mon == LocalDayOf(weekToMonday(w))
        sun == LocalDayOf(weekToSunday(w))
    IN  fmt(mon) \o Dash \o fmt(sun)

\* weekLabelFromEvents without .sort(): first and last in arrival order.
weekLabelFromEvents_unsorted(events, w) ==
    IF events = <<>> THEN weekLabel(w)
    ELSE LET dateKeys == Unique([i \in 1..Len(events) |-> Split(events[i].start, "T")[1]])
             f == Split(dateKeys[1], "-")
             l == Split(dateKeys[Len(dateKeys)], "-")
             firstDate == NewLocalDate(Number(f[1]), Number(f[2]) - 1, Number(f[3]))
             lastDate == NewLocalDate(Number(l[1]), Number(l[2]) - 1, Number(l[3]))
         IN  IF Number(f[2]) = Number(l[2])
             THEN String(getDate(firstDate)) \o Dash \o fmt(lastDate)
             ELSE fmt(firstDate) \o Dash \o fmt(lastDate)

weekLabelFromEvents(events, w) ==
    IF events = <<>> THEN weekLabel(w)
    ELSE LET dateKeys == SortStrings(Unique(
                 [i \in 1..Len(events) |-> Split(events[i].start, "T")[1]]))
             first == dateKeys[1]
             last == dateKeys[Len(dateKeys)]
             f == Split(first, "-")
             l == Split(last, "-")
             fy == Number(f[1])
             fm == Number(f[2])
             fd == Number(f[3])
             ly == Number(l[1])
             lm == Number(l[2])
             ld == Number(l[3])
             firstDate == NewLocalDate(fy, fm - 1, fd)
             lastDate == NewLocalDate(ly, lm - 1, ld)
         IN  IF fm = lm
             THEN String(getDate(firstDate)) \o Dash \o fmt(lastDate)
             ELSE fmt(firstDate) \o Dash \o fmt(lastDate)

------------------------------------------------------------------------
(* App: the event grouper *)

\* The Map of groupByDay as its entries <<key, events>> in insertion order.
MapPush(map, key, event) ==
    IF \E i \in 1..Len(map) : map[i][1] = key
    THEN LET i == CHOOSE j \in 1..Len(map) : map[j][1] = key
         IN  [map EXCEPT ![i] = <<key, Append(map[i][2], event)>>]
    ELSE Append(map, <<key, <<event>>>>)

RECURSIVE GroupInto(_)
GroupInto(events) ==
    IF events = <<>> THEN <<>>
    ELSE LET event == events[Len(events)]
         IN  MapPush(GroupInto(SubSeq(events, 1, Len(events) - 1)),
                     toDateKey(event.start), event)

\* groupByDay without the final sort: Map insertion order.
groupByDay_unsorted(events) == GroupInto(events)

groupByDay(events) == SortEntries(GroupInto(events))

------------------------------------------------------------------------
(* App: the persisted week cursor *)

null == <<>>

getInitialWeek(stored, date) ==
    IF stored # null /\ stored[1] # <<>>      \* if (stored): null and "" are falsy
    THEN LET n == parseInt(stored[1])
         IN  IF ~isNaN(n) /\ n[1] >= MIN_WEEK /\ n[1] <= MAX_WEEK
             THEN n[1]
             ELSE currentWeek(date)
    ELSE currentWeek(date)

\* canGoPrev true also on the first week.
canGoPrev_inclusive == week >= MIN_WEEK

canGoPrev == week > MIN_WEEK
canGoNext == week < MAX_WEEK

\* WeekNavigator: disabled={!canGoPrev}, disabled={!canGoNext}.
prevDisabled == ~canGoPrev
nextDisabled == ~canGoNext

\* useState(getInitialWeek) on the first render. localStorage.getItem may
\* throw (storage access denied); nothing catches it, the render fails and
\* React unmounts the tree.
useStateInit ==
    /\ app = "unmounted"
    /\ \E readOk \in BOOLEAN :
          IF readOk
          THEN /\ app' = "mounted"
               /\ week' = getInitialWeek(localStorage, now)
               /\ err' = "none"
          ELSE /\ app' = "crashed"
               /\ week' = week
               /\ err' = "SecurityError"
    /\ UNCHANGED <<localStorage, now, lastReq>>

\* changeWeek without the clamp.
changeWeek_unclamped(next) ==
    /\ app = "mounted"
    /\ week' = next
    /\ lastReq' = <<next>>
    /\ \E writeOk \in BOOLEAN :
          IF writeOk
          THEN localStorage' = <<String(next)>> /\ err' = "none"
          ELSE localStorage' = localStorage /\ err' = "QuotaExceededError"
    /\ UNCHANGED <<app, now>>

\* changeWeek persisting the requested week instead of the clamped one.
changeWeek_storesRequested(next) ==
    /\ app = "mounted"
    /\ week' = Max(MIN_WEEK, Min(MAX_WEEK, next))
    /\ lastReq' = <<next>>
    /\ \E writeOk \in BOOLEAN :
          IF writeOk
          THEN localStorage' = <<String(next)>> /\ err' = "none"
          ELSE localStorage' = localStorage /\ err' = "QuotaExceededError"
    /\ UNCHANGED <<app, now>>

\* changeWeek(next): setWeek(clamped) is queued first, so the cursor changes
\* even when localStorage.setItem then throws (quota exceeded); nothing
\* catches the exception and it leaves changeWeek.
changeWeek(next) ==
    /\ app = "mounted"
    /\ LET clamped == Max(MIN_WEEK, Min(MAX_WEEK, next))
       IN  /\ week' = clamped
           /\ lastReq' = <<next>>
           /\ \E writeOk \in BOOLEAN :
                 IF writeOk
                 THEN localStorage' = <<String(clamped)>> /\ err' = "none"
                 ELSE localStorage' = localStorage /\ err' = "QuotaExceededError"
    /\ UNCHANGED <<app, now>>

\* The first render of App, the schedule query left aside.
Mount == useStateInit /\ UNCHANGED <<fetchVars, pureVars>>

\* The two buttons of WeekNavigator; a disabled button delivers no click.
OnPrev == canGoPrev /\ changeWeek(week - 1) /\ UNCHANGED <<fetchVars, pureVars>>
OnNext == canGoNext /\ changeWeek(week + 1) /\ UNCHANGED <<fetchVars, pureVars>>

\* changeWeek called with any integer, the neighbours of the cursor included.
Requests == {-1000, 0, MIN_WEEK - 1, MIN_WEEK, 36, MAX_WEEK, MAX_WEEK + 1, 1000}
ChangeWeek ==
    /\ \E next \in Requests \cup {week - 1, week + 1} : changeWeek(next)
    /\ UNCHANGED <<fetchVars, pureVars>>

------------------------------------------------------------------------
(* The states a session can start in *)

StoredAlphabet == {"0", "2", "5", "a", " "}
StoredStrings == UNION {[1..n -> StoredAlphabet] : n \in 0..MaxStoredLen}
StoredItems == {null} \cup {<<s>> : s \in StoredStrings}
           \cup {<<String(MIN_WEEK)>>, <<String(MAX_WEEK)>>, <<String(MIN_WEEK - 1)>>,
                 <<String(MAX_WEEK + 1)>>, <<<<"-", "2", "0">>>>, <<<<"+", "2", "0">>>>}

\* Instants of the first render: around the anchor, around both ends of
\* the semester, and far away on either side.
NowWeeks == {-FarWeeks, -1, 0, 1, 17, MAX_WEEK - ANCHOR_WEEK, MAX_WEEK - ANCHOR_WEEK + 1, FarWeeks}
Dates == {ANCHOR_MONDAY + k * MS_PER_WEEK + j : k \in NowWeeks, j \in {-1, 0, 1}}
Nows == {ANCHOR_MONDAY + k * MS_PER_WEEK : k \in {-FarWeeks, 0, 1, 17, FarWeeks}}

NoCall == [fn |-> "none"]

Init ==
    /\ app = "unmounted"
    /\ week = 0
    /\ localStorage \in StoredItems
    /\ now \in Nows
    /\ err = "none"
    /\ lastReq = <<>>
    /\ cache = <<>>
    /\ late = {}
    /\ call = NoCall
    /\ prev = NoCall

Next == Mount \/ OnPrev \/ OnNext \/ ChangeWeek

Spec == Init /\ [][Next]_vars

------------------------------------------------------------------------
(* hooks/useSchedule: the schedule query, one cache entry per query key *)

GROUP_ID == "343167655"
RETRY == 2

\* A query key that leaves the week out.
queryKey_noWeek(w) == <<"schedule", GROUP_ID>>

queryKey(w) == <<"schedule", GROUP_ID, w>>

\* fetchSchedule(week) resolves with the events the server holds for the
\* week of the request URL.
fetchSchedule(w) == [week |-> w]

\* A query that has just started fetching for week w; queryFn closes over w.
Fetching(q, w) == [q EXCEPT !.fetching = TRUE, !.failureCount = 0, !.reqWeek = w]
NewQuery(w) == [status |-> "pending", data |-> <<>>, fetching |-> TRUE,
                failureCount |-> 0, reqWeek |-> w]

\* useSchedule(w) in a render: the observer attaches to the query of
\* queryKey(w). A missing query is created and fetched, an errored idle one
\* is fetched again, a query already fetching is shared, a successful one
\* is served from the cache while fresh (staleTime).
Observed(c, w) ==
    LET k == queryKey(w)
    IN  IF k \notin DOMAIN c THEN c @@ (k :> NewQuery(w))
        ELSE IF ~c[k].fetching /\ c[k].status = "error"
             THEN [c EXCEPT ![k] = Fetching(c[k], w)]
             ELSE c

\* What useSchedule(week) returns as data: undefined is <<>>.
data == IF queryKey(week) \in DOMAIN cache THEN cache[queryKey(week)].data ELSE <<>>
isError == queryKey(week) \in DOMAIN cache /\ cache[queryKey(week)].status = "error"

\* The cache keeps at most MaxQueries queries in the model.
HasRoom(w) == queryKey(w) \in DOMAIN cache \/ Cardinality(DOMAIN cache) < MaxQueries

\* The first render: the cursor is initialised and the query of its week starts.
FirstRender ==
    /\ useStateInit
    /\ cache' = IF app' = "mounted" THEN Observed(cache, week') ELSE cache
    /\ UNCHANGED <<late, pureVars>>

\* A click on a navigation button and the render that follows it.
ClickPrev ==
    /\ canGoPrev /\ HasRoom(week - 1)
    /\ changeWeek(week - 1)
    /\ cache' = Observed(cache, week')
    /\ UNCHANGED <<late, pureVars>>

ClickNext ==
    /\ canGoNext /\ HasRoom(week + 1)
    /\ changeWeek(week + 1)
    /\ cache' = Observed(cache, week')
    /\ UNCHANGED <<late, pureVars>>

\* The request of a query is answered; the answer is stored in the query
\* that issued it, whichever week is shown by then.
FetchResolve ==
    /\ app = "mounted"
    /\ \E k \in DOMAIN cache :
          /\ cache[k].fetching
          /\ cache' = [cache EXCEPT ![k] =
                          [status |-> "success",
                           data |-> <<fetchSchedule(cache[k].reqWeek)>>,
                           fetching |-> FALSE, failureCount |-> 0,
                           reqWeek |-> cache[k].reqWeek]]
          /\ late' = IF k # queryKey(week) THEN late \cup {cache[k].reqWeek} ELSE late
    /\ UNCHANGED <<navVars, pureVars>>

\* The request fails (network error or !res.ok): retried RETRY times, then
\* the query is in error; data fetched earlier is kept.
FetchReject ==
    /\ app = "mounted"
    /\ \E k \in DOMAIN cache :
          /\ cache[k].fetching
          /\ cache' = [cache EXCEPT ![k] =
                          IF cache[k].failureCount < RETRY
                          THEN [cache[k] EXCEPT !.failureCount = @ + 1]
                          ELSE [cache[k] EXCEPT !.status = "error", !.fetching = FALSE,
                                                !.failureCount = @ + 1]]
    /\ UNCHANGED <<navVars, late, pureVars>>

\* refetch() from the error view, or the refetch of stale data (staleTime
\* elapsed) of the query on screen.
Refetch ==
    /\ app = "mounted"
    /\ queryKey(week) \in DOMAIN cache
    /\ ~cache[queryKey(week)].fetching
    /\ cache' = [cache EXCEPT ![queryKey(week)] = Fetching(@, week)]
    /\ UNCHANGED <<navVars, late, pureVars>>

\* Sessions that start at either end of the semester.
InitFetch == Init /\ localStorage \in {null, <<String(MAX_WEEK)>>} /\ now = ANCHOR_MONDAY

NextFetch == FirstRender \/ ClickPrev \/ ClickNext \/ FetchResolve \/ FetchReject \/ Refetch

SpecFetch == InitFetch /\ [][NextFetch]_vars

------------------------------------------------------------------------
(* The pure functions of lib/weeks and App, applied to bounded inputs *)

WeekArgs == (1 - WeekSlack)..(54 + WeekSlack)
LabelWeeks == {1 - WeekSlack, MIN_WEEK, MIN_WEEK + 1, MAX_WEEK + WeekSlack}

Pad2(n) == IF n < 10 THEN <<"0">> \o String(n) ELSE String(n)

\* ScheduleEvent.start: an ISO 8601 date-time, zero padded.
IsoStart(t) == String(t[1]) \o <<"-">> \o Pad2(t[2]) \o <<"-">> \o Pad2(t[3])
               \o <<"T">> \o Pad2(t[4]) \o <<":", "1", "5", ":", "0", "0">>

\* <<year, month, day, hour>> of the events of the pool: two on one day,
\* days of one month, of two months, and on either side of a new year.
EventDays == << <<2026, 3, 9, 8>>, <<2026, 3, 9, 10>>, <<2026, 3, 13, 8>>,
                <<2026, 3, 30, 12>>, <<2026, 4, 3, 8>>,
                <<2025, 12, 29, 8>>, <<2026, 1, 2, 14>> >>

ScheduleEvents == {[uid |-> i, start |-> IsoStart(EventDays[i])] : i \in 1..Len(EventDays)}
EventLists == UNION {[1..n -> ScheduleEvents] : n \in 0..MaxEvents}

CallDateToWeek ==
    /\ call.fn \in {"none", "dateToWeek"}
    /\ prev = NoCall
    /\ \E d \in Dates :
          /\ call' = [fn |-> "dateToWeek", arg |-> d, res |-> dateToWeek(d)]
          /\ prev' = IF call.fn = "dateToWeek" THEN call ELSE prev
    /\ UNCHANGED <<navVars, fetchVars>>

\* weekToMonday(w), and dateToWeek applied to the date it returns.
CallWeekToMonday ==
    /\ call = NoCall
    /\ \E w \in WeekArgs :
          call' = [fn |-> "weekToMonday", arg |-> w, res |-> weekToMonday(w),
                   back |-> dateToWeek(weekToMonday(w))]
    /\ UNCHANGED <<navVars, fetchVars, prev>>

CallGroupByDay ==
    /\ call = NoCall
    /\ \E events \in EventLists :
          call' = [fn |-> "groupByDay", arg |-> events, res |-> groupByDay(events)]
    /\ UNCHANGED <<navVars, fetchVars, prev>>

CallWeekLabelFromEvents ==
    /\ call = NoCall
    /\ \E events \in EventLists, w \in LabelWeeks :
          call' = [fn |-> "weekLabelFromEvents", arg |-> events, week |-> w,
                   res |-> weekLabelFromEvents(events, w)]
    /\ UNCHANGED <<navVars, fetchVars, prev>>

InitPure == Init /\ localStorage = null /\ now = ANCHOR_MONDAY

NextPure == CallDateToWeek \/ CallWeekToMonday \/ CallGroupByDay \/ CallWeekLabelFromEvents

SpecPure == InitPure /\ [][NextPure]_vars

------------------------------------------------------------------------
(* Claims about the week cursor, checked under Spec *)

\* The clamp of the specification, stated by cases.
ClampedInto(n) == IF n < MIN_WEEK THEN MIN_WEEK
                  ELSE IF n > MAX_WEEK THEN MAX_WEEK
                  ELSE n

\* C1: whenever the application is mounted, whatever was persisted, whatever
\* the date and whatever changeWeek was called with, the week cursor lies in
\* [MIN_WEEK, MAX_WEEK].
C1_CursorInRange == app = "mounted" => week \in MIN_WEEK..MAX_WEEK

\* A changeWeek far above the range has left the cursor on MAX_WEEK.
C1_Witness == /\ app = "mounted"
              /\ lastReq # <<>>
              /\ lastReq[1] > MAX_WEEK + 1
              /\ week = MAX_WEEK

\* C2: changeWeek(requested) sets the cursor to requested clamped into
\* [MIN_WEEK, MAX_WEEK]; prev at MIN_WEEK and next at MAX_WEEK leave the
\* cursor unchanged and raise no error.
C2_ClampsWithoutError ==
    [][\A n \in Requests \cup {week - 1, week + 1} :
          changeWeek(n) =>
             /\ week' = ClampedInto(n)
             /\ (\/ (week = MIN_WEEK /\ n = week - 1)
                 \/ (week = MAX_WEEK /\ n = week + 1))
                   => (week' = week /\ err' = "none")]_vars

\* The part of C2 about the value of the cursor alone.
C2_ClampedValue == lastReq # <<>> => week = ClampedInto(lastReq[1])

RECURSIVE TrimRight(_)
TrimRight(s) == IF s # <<>> /\ s[Len(s)] \in WhiteSpace
                THEN TrimRight(SubSeq(s, 1, Len(s) - 1))
                ELSE s

\* A numeric string: digits only, with an optional sign, white space around
\* it allowed.
IsNumericString(s) ==
    LET t == TrimRight(TrimLeft(s))
        u == IF t # <<>> /\ Head(t) \in {"+", "-"} THEN Tail(t) ELSE t
    IN  u # <<>> /\ \A i \in 1..Len(u) : IsDigit(u[i])

NumericValue(s) ==
    LET t == TrimRight(TrimLeft(s))
        u == IF t # <<>> /\ Head(t) \in {"+", "-"} THEN Tail(t) ELSE t
    IN  IF Head(t) = "-" THEN -DigitsValue(u) ELSE DigitsValue(u)

\* C3: right after initialization the cursor is the persisted value when
\* that value is a numeric string denoting a week within
\* [MIN_WEEK, MAX_WEEK], and currentWeek() in every other case (absent,
\* not a numeric string, out of range).
C3_InvalidStoredIsAbsent ==
    (app = "mounted" /\ lastReq = <<>>) =>
        week = IF /\ localStorage # null
                  /\ IsNumericString(localStorage[1])
                  /\ NumericValue(localStorage[1]) \in MIN_WEEK..MAX_WEEK
               THEN NumericValue(localStorage[1])
               ELSE currentWeek(now)

\* C4: a storage failure is never fatal: a failed read does not stop the
\* initialization (the application mounts), a failed write leaves the
\* cursor on the clamped requested week, and no storage exception escapes
\* getInitialWeek or changeWeek.
C4_StorageFailureNotFatal ==
    /\ app # "crashed"
    /\ err = "none"
    /\ lastReq # <<>> => week = ClampedInto(lastReq[1])

------------------------------------------------------------------------
(* Claims about the pure functions, checked under SpecPure *)

\* C7: for every week w in [1, 54], weekToMonday(w) is the anchor Monday
\* plus (w - 19) * 7 days, week 19 being Monday 2026-03-02, and
\* dateToWeek(weekToMonday(w)) = w.
C7_RoundTrip ==
    (call.fn = "weekToMonday" /\ call.arg \in 1..54) =>
        /\ call.back = call.arg
        /\ LocalDayOf(call.res) - DaysFromCivil(2026, 3, 2) = (call.arg - 19) * 7
        /\ call.res - ANCHOR_MONDAY = (call.arg - 19) * 7 * 24 * 60

\* The round trip of week 1, the lowest week of the law.
C7_Witness == call.fn = "weekToMonday" /\ call.arg = 1 /\ call.back = 1

\* C8: dateToWeek returns a week within [1, 54] for every date, however far
\* from the anchor, and of two dates the later never gets the smaller week.
C8_MonotoneInRange ==
    /\ call.fn = "dateToWeek" => call.res \in 1..54
    /\ (call.fn = "dateToWeek" /\ prev.fn = "dateToWeek") =>
          /\ prev.arg <= call.arg => prev.res <= call.res
          /\ call.arg <= prev.arg => call.res <= prev.res

\* A date long before week 1 and a date long after week 54 were converted.
C8_Witness ==
    /\ call.fn = "dateToWeek" /\ prev.fn = "dateToWeek"
    /\ prev.arg < weekToMonday(1) - 1000 * MS_PER_WEEK /\ prev.res = 1
    /\ call.arg > weekToMonday(54) + 1000 * MS_PER_WEEK /\ call.res = 54

\* The calendar day of an event of the pool, and the order of days.
DayOf(e) == SubSeq(EventDays[e.uid], 1, 3)
DayBefore(a, b) == \/ a[1] < b[1]
                   \/ (a[1] = b[1] /\ a[2] < b[2])
                   \/ (a[1] = b[1] /\ a[2] = b[2] /\ a[3] < b[3])
DateKeyOf(day) == String(day[1]) \o <<"-">> \o Pad2(day[2]) \o <<"-">> \o Pad2(day[3])
DaysOf(events) == {DayOf(events[i]) : i \in 1..Len(events)}

\* C9: groupByDay returns one bucket per distinct day of the input, keyed
\* by the date part of the start, in strictly ascending order of day; each
\* bucket holds exactly the input events of its day in their input order
\* (so every event occurs once, in its own bucket); the empty list gives
\* no bucket.
C9_GroupByDay ==
    call.fn = "groupByDay" =>
        LET events == call.arg
            days == call.res
        IN  /\ Len(days) = Cardinality(DaysOf(events))
            /\ \A i \in 1..Len(days) :
                  \E d \in DaysOf(events) :
                     /\ days[i][1] = DateKeyOf(d)
                     /\ days[i][2] = SelectSeq(events, LAMBDA e : DayOf(e) = d)
            /\ \A i, j \in 1..Len(days) :
                  i < j => DayBefore(DayOf(days[i][2][1]), DayOf(days[j][2][1]))

\* Three events, the first on a later day than the last, two on one day.
C9_Witness ==
    /\ call.fn = "groupByDay"
    /\ Len(call.arg) = 3
    /\ DayBefore(DayOf(call.arg[3]), DayOf(call.arg[1]))
    /\ DayOf(call.arg[2]) = DayOf(call.arg[3])
    /\ call.arg[2] # call.arg[3]
    /\ Len(call.res) = 2
    /\ Len(call.res[1][2]) = 2

EarliestDay(events) ==
    CHOOSE d \in DaysOf(events) : \A o \in DaysOf(events) : o = d \/ DayBefore(d, o)
LatestDay(events) ==
    CHOOSE d \in DaysOf(events) : \A o \in DaysOf(events) : o = d \/ DayBefore(o, d)

\* C10: for a non-empty list in any order the label is made of the earliest
\* and the latest day of the events: "D - D mon" when both lie in the same
\* month, "D mon - D mon" otherwise, whatever the week argument; the days
\* 2026-03-09 and 2026-03-13 give "9 - 13 mar", and 2026-03-30 and
\* 2026-04-03 give "30 mar - 3 kwi" (the dash is an en dash).
C10_LabelFromEvents ==
    (call.fn = "weekLabelFromEvents" /\ call.arg # <<>>) =>
        LET f == EarliestDay(call.arg)
            l == LatestDay(call.arg)
        IN  /\ call.res = IF f[1] = l[1] /\ f[2] = l[2]
                          THEN String(f[3]) \o Dash \o String(l[3]) \o <<" ">> \o PL_MONTHS[l[2]]
                          ELSE String(f[3]) \o <<" ">> \o PL_MONTHS[f[2]] \o Dash
                               \o String(l[3]) \o <<" ">> \o PL_MONTHS[l[2]]
            /\ DaysOf(call.arg) = {<<2026, 3, 9>>, <<2026, 3, 13>>} =>
                  call.res = <<"9", " ", "EN_DASH", " ", "1", "3", " ", "m", "a", "r">>
            /\ DaysOf(call.arg) = {<<2026, 3, 30>>, <<2026, 4, 3>>} =>
                  call.res = <<"3", "0", " ", "m", "a", "r", " ", "EN_DASH", " ",
                               "3", " ", "k", "w", "i">>

\* The events of 3 April and 30 March, in that order, gave "30 mar - 3 kwi".
C10_Witness ==
    /\ call.fn = "weekLabelFromEvents"
    /\ Len(call.arg) = 2
    /\ DayOf(call.arg[1]) = <<2026, 4, 3>>
    /\ DayOf(call.arg[2]) = <<2026, 3, 30>>
    /\ call.week = MAX_WEEK + WeekSlack
    /\ call.res = <<"3", "0", " ", "m", "a", "r", " ", "EN_DASH", " ", "3", " ", "k", "w", "i">>

------------------------------------------------------------------------
(* Claim about the schedule query, checked under SpecFetch *)

\* C5: whatever the interleaving of week changes and fetch completions, the
\* events on display are the response to a request for the week of the
\* cursor; a response that arrives after the user left its week is never
\* displayed for another week.
C5_DisplayedIsCurrentWeek ==
    (app = "mounted" /\ data # <<>>) => data[1] = fetchSchedule(week)

\* A response arrived for a week the user had already left, and the week
\* on screen shows its own events.
C5_Witness ==
    /\ app = "mounted"
    /\ data # <<>>
    /\ \E w \in late : w # week /\ cache[queryKey(w)].status = "success"

------------------------------------------------------------------------
(* Claim about the navigation controls, checked under Spec *)

\* C11: while the application is mounted, the backward control is enabled
\* iff the cursor is above MIN_WEEK and the forward control iff it is below
\* MAX_WEEK; a click on an enabled control moves the cursor by exactly -1
\* or +1; and a control is disabled exactly when changeWeek(cursor - 1),
\* respectively changeWeek(cursor + 1), leaves the cursor where it is.
C11_ControlsMatchClamp ==
    [][app = "mounted" =>
          /\ ~prevDisabled <=> week > MIN_WEEK
          /\ ~nextDisabled <=> week < MAX_WEEK
          /\ OnPrev => week' = week - 1
          /\ OnNext => week' = week + 1
          /\ changeWeek(week - 1) => (prevDisabled <=> week' = week)
          /\ changeWeek(week + 1) => (nextDisabled <=> week' = week)]_vars

\* On the first week, after changeWeek(MIN_WEEK - 1): backward is disabled,
\* forward is enabled.
C11_Witness ==
    /\ app = "mounted"
    /\ week = MIN_WEEK
    /\ lastReq = <<MIN_WEEK - 1>>
    /\ prevDisabled
    /\ ~nextDisabled

=============================================================================
